---- MODULE Spec2Model ----
(***************************************************************************)
(* A model of src/excel_modifier/__init__.py (class ExcelModifier).        *)
(*                                                                         *)
(* Representation of Python values:                                        *)
(*   - a str is a sequence of one-character strings;                       *)
(*   - a float read from an instruction string is an integer number of     *)
(*     tenths (5.0 is 50); the inputs carry at most one fractional digit;  *)
(*   - a numeric table cell is [nan |-> BOOLEAN, v |-> Int]; every         *)
(*     comparison with a missing value (NaN) is false, as in IEEE 754;     *)
(*   - a quantile is a cell whose v counts thousandths, so that the        *)
(*     linear interpolation is exact;                                      *)
(*   - a dict is a function whose DOMAIN is its set of keys.               *)
(***************************************************************************)
EXTENDS Integers, Sequences, FiniteSets, TLC

VARIABLES sheets_to_modify, writes, pc, args, result

vars == <<sheets_to_modify, writes, pc, args, result>>

----------------------------------------------------------------------------
(* Strings *)

Digits == <<"0", "1", "2", "3", "4", "5", "6", "7", "8", "9">>

IsDigit(c) == \E d \in 1..Len(Digits) : Digits[d] = c

DigitVal(c) == (CHOOSE d \in 1..Len(Digits) : Digits[d] = c) - 1

RECURSIVE DigitsVal(_)
DigitsVal(ds) ==
  IF ds = <<>> THEN 0
  ELSE 10 * DigitsVal(SubSeq(ds, 1, Len(ds) - 1)) + DigitVal(ds[Len(ds)])

AllDigits(ds) == ds # <<>> /\ \A k \in 1..Len(ds) : IsDigit(ds[k])

RECURSIVE Pow10(_)
Pow10(k) == IF k = 0 THEN 1 ELSE 10 * Pow10(k - 1)

\* str.split(): the maximal runs of characters other than whitespace.
RECURSIVE SplitFrom(_, _, _)
SplitFrom(s, cur, acc) ==
  IF s = <<>> THEN (IF cur = <<>> THEN acc ELSE Append(acc, cur))
  ELSE IF Head(s) = " "
       THEN SplitFrom(Tail(s), <<>>, IF cur = <<>> THEN acc ELSE Append(acc, cur))
       ELSE SplitFrom(Tail(s), Append(cur, Head(s)), acc)

Split(s) == SplitFrom(s, <<>>, <<>>)

\* a in b for two str: a occurs in b as a substring.
IsSubstring(a, b) ==
  \E start \in 0..(Len(b) - Len(a)) : SubSeq(b, start + 1, start + Len(a)) = a

Unsigned(tok) ==
  IF tok # <<>> /\ Head(tok) \in {"+", "-"} THEN Tail(tok) ELSE tok

Sign(tok) == IF tok # <<>> /\ Head(tok) = "-" THEN -1 ELSE 1

DotAt(tok) == {k \in 1..Len(tok) : tok[k] = "."}

\* float(tok): [sign] digits [ "." [digits] ] or [sign] "." digits; any other
\* token raises ValueError.  The value is returned in tenths.
FloatOk(tok) ==
  LET u == Unsigned(tok) IN
    \/ AllDigits(u)
    \/ /\ Cardinality(DotAt(u)) = 1
       /\ LET d == CHOOSE k \in DotAt(u) : TRUE
              ip == SubSeq(u, 1, d - 1)
              fp == SubSeq(u, d + 1, Len(u))
          IN /\ ip \o fp # <<>>
             /\ \A k \in 1..Len(ip \o fp) : IsDigit((ip \o fp)[k])

FloatVal(tok) ==
  LET u == Unsigned(tok) IN
    IF DotAt(u) = {} THEN Sign(tok) * 10 * DigitsVal(u)
    ELSE LET d == CHOOSE k \in DotAt(u) : TRUE
             ip == SubSeq(u, 1, d - 1)
             fp == SubSeq(u, d + 1, Len(u))
         IN Sign(tok) * (10 * DigitsVal(ip)
                         + (10 * DigitsVal(fp)) \div Pow10(Len(fp)))

\* int(tok): [sign] digits; any other token (also "1.0") raises ValueError.
IntOk(tok) == AllDigits(Unsigned(tok))

IntVal(tok) == Sign(tok) * DigitsVal(Unsigned(tok))

----------------------------------------------------------------------------
(* _parse_instructions *)

POSSIBLE_INSTRUCTIONS == <<"M", "m", "C", "c", "p", "s", "o", "O">>

EmptyDict == [k \in {} |-> 0]

\* d[k] = v on a dict
DictSet(d, k, v) == (k :> v) @@ d

ColourInverted(next_item) == IF next_item = <<"r">> THEN "green" ELSE "red"

Colour(next_item) == IF next_item = <<"r">> THEN "red" ELSE "green"

\* match next_item under case 's': no case for a token other than u, l, b.
SetFormattingOptionDefaulted(params, next_item) ==
  CASE next_item = <<"u">> -> DictSet(params, "formatting_option", "colour_upper")
    [] next_item = <<"l">> -> DictSet(params, "formatting_option", "colour_lower")
    [] OTHER -> DictSet(params, "formatting_option", "colour_both")

SetFormattingOption(params, next_item) ==
  CASE next_item = <<"u">> -> DictSet(params, "formatting_option", "colour_upper")
    [] next_item = <<"l">> -> DictSet(params, "formatting_option", "colour_lower")
    [] next_item = <<"b">> -> DictSet(params, "formatting_option", "colour_both")
    [] OTHER -> params

\* The body of one match statement: the dict after the case for current_elem
\* has run, or the exception a conversion raises.
MatchInstruction(params, current_elem, next_item) ==
  CASE current_elem = <<"M">> ->
         IF FloatOk(next_item)
         THEN [raised |-> "none", params |-> DictSet(params, "margin_upper", FloatVal(next_item))]
         ELSE [raised |-> "ValueError", params |-> params]
    [] current_elem = <<"m">> ->
         IF FloatOk(next_item)
         THEN [raised |-> "none", params |-> DictSet(params, "margin_lower", FloatVal(next_item))]
         ELSE [raised |-> "ValueError", params |-> params]
    [] current_elem = <<"C">> ->
         [raised |-> "none", params |-> DictSet(params, "colour_upper", Colour(next_item))]
    [] current_elem = <<"c">> ->
         [raised |-> "none", params |-> DictSet(params, "colour_lower", Colour(next_item))]
    [] current_elem = <<"p">> ->
         IF FloatOk(next_item)
         THEN [raised |-> "none", params |-> DictSet(params, "majority_percentage", FloatVal(next_item))]
         ELSE [raised |-> "ValueError", params |-> params]
    [] current_elem = <<"s">> ->
         [raised |-> "none", params |-> SetFormattingOption(params, next_item)]
    [] current_elem = <<"o">> ->
         IF IntOk(next_item)
         THEN [raised |-> "none", params |-> DictSet(params, "row_offset", IntVal(next_item))]
         ELSE [raised |-> "ValueError", params |-> params]
    [] current_elem = <<"O">> ->
         IF IntOk(next_item)
         THEN [raised |-> "none", params |-> DictSet(params, "column_offset", IntVal(next_item))]
         ELSE [raised |-> "ValueError", params |-> params]
    [] OTHER -> [raised |-> "none", params |-> params]

\* Whether the loop takes element i of the split string for an instruction.
IsInstruction(current_elem) == IsSubstring(current_elem, POSSIBLE_INSTRUCTIONS)

\* The index the loop visits after index i.
NextIndex(i) == i + 1

\* The loop over range(len(instruction_split)), from index i (1-based here).
\* keys_at records the indices whose element the loop took for an instruction.
RECURSIVE ParseLoop(_, _, _, _)
ParseLoop(instruction_split, i, params, keys_at) ==
  IF i > Len(instruction_split)
  THEN [raised |-> "none", params |-> params, keys_at |-> keys_at]
  ELSE LET current_elem == instruction_split[i] IN
    IF IsInstruction(current_elem)
    THEN IF i + 1 > Len(instruction_split)
         THEN [raised |-> "IndexError", params |-> EmptyDict, keys_at |-> keys_at \cup {i}]
         ELSE LET m == MatchInstruction(params, current_elem, instruction_split[i + 1]) IN
              IF m.raised # "none"
              THEN [raised |-> m.raised, params |-> EmptyDict, keys_at |-> keys_at \cup {i}]
              ELSE ParseLoop(instruction_split, NextIndex(i), m.params, keys_at \cup {i})
    ELSE ParseLoop(instruction_split, NextIndex(i), params, keys_at)

_parse_instructions(instructions) ==
  ParseLoop(Split(instructions), 1, EmptyDict, {})

----------------------------------------------------------------------------
(* Instruction strings given to the parser *)

RECURSIVE JoinTokens(_)
JoinTokens(toks) ==
  IF toks = <<>> THEN <<>>
  ELSE IF Len(toks) = 1 THEN toks[1]
  ELSE toks[1] \o <<" ">> \o JoinTokens(Tail(toks))

RECURSIVE FormatNat(_)
FormatNat(n) ==
  IF n < 10 THEN <<Digits[n + 1]>>
  ELSE FormatNat(n \div 10) \o <<Digits[(n % 10) + 1]>>

\* A float of t tenths written with one fractional digit ("5.0"), or, when it
\* is whole and int_style is set, as an integer ("5").
FormatFloat(t, int_style) ==
  IF int_style /\ t % 10 = 0 THEN FormatNat(t \div 10)
  ELSE FormatNat(t \div 10) \o <<".">> \o FormatNat(t % 10)

FormatColour(colour) == IF colour = "red" THEN <<"r">> ELSE <<"g">>

FormatOption(formatting_option) ==
  CASE formatting_option = "colour_upper" -> <<"u">>
    [] formatting_option = "colour_lower" -> <<"l">>
    [] formatting_option = "colour_both" -> <<"b">>

\* The eight key/value pairs that state the configuration record given.
PairsOf(given, int_style) ==
  << <<<<"M">>, FormatFloat(given.margin_upper, int_style)>>,
     <<<<"m">>, FormatFloat(given.margin_lower, int_style)>>,
     <<<<"C">>, FormatColour(given.colour_upper)>>,
     <<<<"c">>, FormatColour(given.colour_lower)>>,
     <<<<"p">>, FormatFloat(given.majority_percentage, int_style)>>,
     <<<<"s">>, FormatOption(given.formatting_option)>>,
     <<<<"o">>, FormatNat(given.row_offset)>>,
     <<<<"O">>, FormatNat(given.column_offset)>> >>

RECURSIVE FlattenPairs(_, _)
FlattenPairs(pairs, order) ==
  IF order = <<>> THEN <<>>
  ELSE pairs[Head(order)] \o FlattenPairs(pairs, Tail(order))

InstructionString(given, int_style, order) ==
  JoinTokens(FlattenPairs(PairsOf(given, int_style), order))

RECURSIVE Perms(_)
Perms(S) ==
  IF S = {} THEN {<<>>}
  ELSE UNION {{<<x>> \o p : p \in Perms(S \ {x})} : x \in S}

NumPairs == Len(POSSIBLE_INSTRUCTIONS)

AllOrders == Perms(1..NumPairs)

CanonicalOrder == [k \in 1..NumPairs |-> k]

SomeOrders ==
  {CanonicalOrder,
   [k \in 1..NumPairs |-> NumPairs + 1 - k],
   [k \in 1..NumPairs |-> ((k + 2) % NumPairs) + 1]}

\* "M 5.0 m 10.0 C g c r p 10.0 s b o 1 O 0"
ExampleGiven ==
  [margin_upper |-> 50, margin_lower |-> 100, colour_upper |-> "green",
   colour_lower |-> "red", majority_percentage |-> 100,
   formatting_option |-> "colour_both", row_offset |-> 1, column_offset |-> 0]

Givens ==
  [margin_upper : {0, 50, 125}, margin_lower : {100, 1000},
   colour_upper : {"red", "green"}, colour_lower : {"red", "green"},
   majority_percentage : {100, 505},
   formatting_option : {"colour_upper", "colour_lower", "colour_both"},
   row_offset : {0, 1, 12}, column_offset : {0, 3}]

OrderedInputs ==
  {[kind |-> "ordered", given |-> ExampleGiven, int_style |-> FALSE, order |-> o,
    instructions |-> InstructionString(ExampleGiven, FALSE, o)] : o \in AllOrders}
  \cup
  {[kind |-> "ordered", given |-> g, int_style |-> st, order |-> o,
    instructions |-> InstructionString(g, st, o)] :
      g \in Givens, st \in BOOLEAN, o \in SomeOrders}

\* Longest token sequence enumerated in full.
MaxTokens == 3

TokenAlphabet ==
  {<<k>> : k \in {POSSIBLE_INSTRUCTIONS[j] : j \in 1..NumPairs}}
  \cup {<<"r">>, <<"g">>, <<"b">>, <<"x">>, <<"1">>, <<"2", ".", "5">>,
        <<"M", "m">>, <<"o", "O">>}

TokenSeqs == UNION {[1..n -> TokenAlphabet] : n \in 1..MaxTokens}

TokenInputs ==
  {[kind |-> "tokens", instructions |-> JoinTokens(ts)] : ts \in TokenSeqs}

----------------------------------------------------------------------------
(* The parser applied to a drawn instruction string *)

NoResult == [raised |-> "none", params |-> EmptyDict, keys_at |-> {}]

InitParse ==
  /\ sheets_to_modify = [kind |-> "dict", items |-> <<>>]
  /\ writes = <<>>
  /\ pc = "input"
  /\ args \in OrderedInputs \cup TokenInputs
  /\ result = NoResult

ParseInstructions ==
  /\ pc = "input"
  /\ result' = _parse_instructions(args.instructions)
  /\ pc' = "parsed"
  /\ UNCHANGED <<sheets_to_modify, writes, args>>

NextParse == ParseInstructions

SpecParse == InitParse /\ [][NextParse]_vars

\* C5: an instruction string made of the eight key/value pairs, each once and
\* with a valid value, parses without error to the configuration record the
\* pairs state, whatever the order of the pairs.
C5_OrderIrrelevant ==
  (pc = "parsed" /\ args.kind = "ordered") =>
     /\ result.raised = "none"
     /\ DOMAIN result.params = DOMAIN args.given
     /\ \A k \in DOMAIN args.given : result.params[k] = args.given[k]

\* The documented example with its pairs in another order (O first, M last).
C5_Witness ==
  /\ pc = "parsed"
  /\ args.kind = "ordered"
  /\ args.given = ExampleGiven
  /\ args.order[1] = NumPairs
  /\ args.order[NumPairs] = 1
  /\ result.raised = "none"
  /\ result.params["margin_upper"] = 50
  /\ result.params["colour_lower"] = "red"
  /\ result.params["formatting_option"] = "colour_both"
  /\ result.params["row_offset"] = 1

\* C6: the token right after a key is used only as that key's value: the loop
\* never takes it for an instruction itself.
C6_ValueNeverKey ==
  pc = "parsed" => \A i \in result.keys_at : (i + 1) \notin result.keys_at

----------------------------------------------------------------------------
(* Stray tokens added to a well-formed instruction string *)

\* Most stray tokens added to one string.
MaxStrays == 1

StrayTokens == {<<"x">>, <<"M", "m">>, <<"o", "O">>, <<"5", ".", "0">>}

StrayBases ==
  {[kind |-> "ordered", given |-> g, int_style |-> FALSE, order |-> o,
    instructions |-> InstructionString(g, FALSE, o)] :
      g \in {ExampleGiven,
             [ExampleGiven EXCEPT !.formatting_option = "colour_upper",
                                  !.colour_upper = "red", !.column_offset = 3]},
      o \in SomeOrders}

InsertAt(seq, k, e) == SubSeq(seq, 1, k - 1) \o <<e>> \o SubSeq(seq, k, Len(seq))

InitStray ==
  /\ sheets_to_modify = [kind |-> "dict", items |-> <<>>]
  /\ writes = <<>>
  /\ pc = "input"
  /\ \E b \in StrayBases :
       args = [kind |-> "stray", instructions |-> b.instructions,
               strays |-> 0, baseline |-> NoResult]
  /\ result = NoResult

\* A token that is none of the eight keys is added at position k of the split
\* string, where it does not follow a key; the record parsed before is kept
\* as the baseline.
AddStrayToken ==
  /\ pc = "parsed"
  /\ args.strays < MaxStrays
  /\ \E tok \in StrayTokens :
     \E k \in 1..(Len(Split(args.instructions)) + 1) :
       /\ IF k = 1 THEN TRUE
          ELSE \A j \in 1..NumPairs :
                 Split(args.instructions)[k - 1] # <<POSSIBLE_INSTRUCTIONS[j]>>
       /\ args' = [args EXCEPT
                     !.instructions = JoinTokens(InsertAt(Split(args.instructions), k, tok)),
                     !.strays = @ + 1,
                     !.baseline = result]
  /\ pc' = "input"
  /\ UNCHANGED <<sheets_to_modify, writes, result>>

NextStray == ParseInstructions \/ AddStrayToken

SpecStray == InitStray /\ [][NextStray]_vars

\* C7: a stray token added to an instruction string raises no error and
\* leaves the configuration record returned unchanged.
C7_StrayIgnored ==
  (pc = "parsed" /\ args.kind = "stray" /\ args.strays > 0) =>
     /\ result.raised = "none"
     /\ result.params = args.baseline.params

----------------------------------------------------------------------------
(* Columns and _calculate_bounds *)

Num(n) == [nan |-> FALSE, v |-> n]

NaN == [nan |-> TRUE, v |-> 0]

\* Comparisons of two floats counted in the same unit; false on a NaN.
GeIgnoringNaN(a, b) == a.v >= b.v

Ge(a, b) == ~a.nan /\ ~b.nan /\ a.v >= b.v

Gt(a, b) == ~a.nan /\ ~b.nan /\ a.v > b.v

Eq(a, b) == ~a.nan /\ ~b.nan /\ a.v = b.v

\* A cell value, counted in units, in thousandths.
Milli(c) == [nan |-> c.nan, v |-> 1000 * c.v]

IsPresent(c) == ~c.nan

IsMissing(c) == c.nan

RECURSIVE InsertSorted(_, _)
InsertSorted(sorted, c) ==
  IF sorted = <<>> THEN <<c>>
  ELSE IF c.v < Head(sorted).v THEN <<c>> \o sorted
  ELSE <<Head(sorted)>> \o InsertSorted(Tail(sorted), c)

RECURSIVE SortPresent(_)
SortPresent(cells) ==
  IF cells = <<>> THEN <<>>
  ELSE InsertSorted(SortPresent(Tail(cells)), Head(cells))

\* Series.sort_values(): ascending, the missing values last.
sort_values(series) ==
  SortPresent(SelectSeq(series, IsPresent)) \o SelectSeq(series, IsMissing)

\* Series.quantile(q) with the default linear interpolation, q in thousandths:
\* the missing values are dropped, the position is q * (n - 1) in the sorted
\* values, and the result lies between the two neighbours of that position.
\* The result is in thousandths; it is NaN when no value is present.
quantile(series, q) ==
  LET vals == SortPresent(SelectSeq(series, IsPresent))
      n == Len(vals)
  IN IF n = 0 THEN NaN
     ELSE LET pos == q * (n - 1)
              j == pos \div 1000
              g == pos % 1000
              lo == vals[j + 1].v
              hi == vals[IF j + 2 <= n THEN j + 2 ELSE n].v
          IN Num(1000 * lo + g * (hi - lo))

\* upper_bound_quantile = 1.0 - (upper_bound / 100.0), in thousandths; the
\* percentage is in tenths.
UpperQuantileSwapped(upper_bound) == upper_bound

UpperQuantile(upper_bound) == 1000 - upper_bound

\* lower_bound_quantile = lower_bound / 100.0, in thousandths.
LowerQuantile(lower_bound) == lower_bound

_calculate_bounds(series, upper_bound, lower_bound) ==
  LET sorted_series == sort_values(series)
      x == quantile(sorted_series, UpperQuantile(upper_bound))
      y == quantile(sorted_series, LowerQuantile(lower_bound))
  IN <<x, y>>

\* Most rows of a table.
MaxRows == 3

\* Largest value of a cell.
MaxVal == 2

Cells == {Num(n) : n \in 0..MaxVal} \cup {NaN}

SeriesInputs == UNION {[1..n -> Cells] : n \in 1..MaxRows}

\* Percentages, in tenths: 0, 12.5, 25, 50 and 100 per cent.
Percentages == {0, 125, 250, 500, 1000}

InitBounds ==
  /\ sheets_to_modify = [kind |-> "dict", items |-> <<>>]
  /\ writes = <<>>
  /\ pc = "input"
  /\ args \in [series : SeriesInputs, upper_bound : Percentages,
               lower_bound : Percentages]
  /\ result = <<NaN, NaN>>

CalculateBounds ==
  /\ pc = "input"
  /\ result' = _calculate_bounds(args.series, args.upper_bound, args.lower_bound)
  /\ pc' = "bounds"
  /\ UNCHANGED <<sheets_to_modify, writes, args>>

NextBounds == CalculateBounds

SpecBounds == InitBounds /\ [][NextBounds]_vars

\* The values present in a series, and the k-th smallest of them: the value
\* with fewer than k values below it and at least k values not above it.
PresentAt(series) == {i \in 1..Len(series) : ~series[i].nan}

KthSmallest(series, k) ==
  CHOOSE w \in {series[i].v : i \in PresentAt(series)} :
    /\ Cardinality({i \in PresentAt(series) : series[i].v < w}) < k
    /\ Cardinality({i \in PresentAt(series) : series[i].v <= w}) >= k

\* b, in thousandths, is the linear-interpolation quantile of the series at
\* q thousandths: for the position q * (n - 1) = (j - 1) + g / 1000 between
\* two neighbouring ranks, b lies the fraction g / 1000 of the way from the
\* j-th smallest value to the next.
IsLinearQuantile(series, q, b) ==
  LET n == Cardinality(PresentAt(series)) IN
    /\ ~b.nan
    /\ \E j \in 1..n : \E g \in 0..1000 :
         /\ 1000 * (j - 1) + g = q * (n - 1)
         /\ g > 0 => j < n
         /\ b.v = 1000 * KthSmallest(series, j)
                  + (IF g = 0 THEN 0
                     ELSE g * (KthSmallest(series, j + 1) - KthSmallest(series, j)))

\* C4: for a column with a value present and percentages in [0, 100],
\* _calculate_bounds returns (X, Y), X the linear-interpolation quantile at
\* 1 - upperPct/100 and Y the one at lowerPct/100; percentages of 0 give
\* (max, min).
C4_BoundsAreQuantiles ==
  (pc = "bounds" /\ PresentAt(args.series) # {}) =>
     /\ IsLinearQuantile(args.series, 1000 - args.upper_bound, result[1])
     /\ IsLinearQuantile(args.series, args.lower_bound, result[2])
     /\ args.upper_bound = 0 =>
          /\ \A i \in PresentAt(args.series) : result[1].v >= 1000 * args.series[i].v
          /\ \E i \in PresentAt(args.series) : result[1].v = 1000 * args.series[i].v
     /\ args.lower_bound = 0 =>
          /\ \A i \in PresentAt(args.series) : result[2].v <= 1000 * args.series[i].v
          /\ \E i \in PresentAt(args.series) : result[2].v = 1000 * args.series[i].v

\* An unsorted column whose upper bound is interpolated between two values
\* and differs from its lower bound.
C4_Witness ==
  /\ pc = "bounds"
  /\ args.series = <<Num(2), Num(0), Num(1)>>
  /\ args.upper_bound = 125
  /\ args.lower_bound = 250
  /\ result = <<Num(1750), Num(500)>>

----------------------------------------------------------------------------
(* _get_indices_to_edit and _colourize_columns *)

\* A DataFrame is [columns |-> <<column, ...>>]; a column is
\* [name |-> str, numeric |-> BOOLEAN, values |-> <<cell, ...>>].  Column
\* positions and row positions count from 0, as in the code.

columns_tolist(sheet_data) ==
  [i \in 1..Len(sheet_data.columns) |-> sheet_data.columns[i].name]

InList(x, list) == \E k \in 1..Len(list) : list[k] = x

is_numeric_dtype(column) == column.numeric

\* The column at position i is taken when its name is in the list asked for
\* and its dtype is numeric.
IsIndexToEditAnyName(sheet_data, columns, i) ==
  is_numeric_dtype(sheet_data.columns[i + 1])

IsIndexToEdit(sheet_data, columns, i) ==
  /\ InList(columns_tolist(sheet_data)[i + 1], columns)
  /\ is_numeric_dtype(sheet_data.columns[i + 1])

_get_indices_to_edit(sheet_data, columns, multi_index) ==
  LET list_of_columns == columns_tolist(sheet_data)
      Taken(i) == IsIndexToEdit(sheet_data, columns, i)
  IN SelectSeq([k \in 1..Len(list_of_columns) |-> k - 1], Taken)

\* sheet_data.shape[0]
NumRowsOf(sheet_data) ==
  IF sheet_data.columns = <<>> THEN 0 ELSE Len(sheet_data.columns[1].values)

\* Series.max() and Series.min(): over the values present, NaN when none is.
SeriesMax(column) ==
  LET present == {i \in 1..Len(column) : ~column[i].nan} IN
    IF present = {} THEN NaN
    ELSE column[CHOOSE i \in present : \A k \in present : column[i].v >= column[k].v]

SeriesMin(column) ==
  LET present == {i \in 1..Len(column) : ~column[i].nan} IN
    IF present = {} THEN NaN
    ELSE column[CHOOSE i \in present : \A k \in present : column[i].v <= column[k].v]

\* (current_column == extreme).mean() >= majority_percentage / 100, the
\* percentage in tenths; the mean of no row is NaN and the test is false.
MajorityExistsStrict(current_column, extreme, majority_percentage) ==
  /\ Len(current_column) > 0
  /\ 1000 * Cardinality({i \in 1..Len(current_column) : Eq(current_column[i], extreme)})
       > majority_percentage * Len(current_column)

MajorityExists(current_column, extreme, majority_percentage) ==
  /\ Len(current_column) > 0
  /\ 1000 * Cardinality({i \in 1..Len(current_column) : Eq(current_column[i], extreme)})
       >= majority_percentage * Len(current_column)

UpperModes == {"colour_upper", "colour_both"}

LowerModes == {"colour_lower", "colour_both"}

\* Lines 397-403: largest > current_data >= X when the largest value is a
\* majority, largest >= current_data >= X otherwise.
UpperEligibleNonStrict(current_data, largest, x, upper_bound_majority_exists) ==
  Ge(largest, current_data) /\ Ge(Milli(current_data), x)

UpperEligible(current_data, largest, x, upper_bound_majority_exists) ==
  IF upper_bound_majority_exists
  THEN Gt(largest, current_data) /\ Ge(Milli(current_data), x)
  ELSE Ge(largest, current_data) /\ Ge(Milli(current_data), x)

\* Lines 409-415: smallest < current_data <= Y when the smallest value is a
\* majority, smallest <= current_data <= Y otherwise.
LowerEligibleNonStrict(current_data, smallest, y, lower_bound_majority_exists) ==
  Ge(current_data, smallest) /\ Ge(y, Milli(current_data))

LowerEligible(current_data, smallest, y, lower_bound_majority_exists) ==
  IF lower_bound_majority_exists
  THEN Gt(current_data, smallest) /\ Ge(y, Milli(current_data))
  ELSE Ge(current_data, smallest) /\ Ge(y, Milli(current_data))

\* book.add_format({'bg_color': ...}): one format object for each margin.
BgColor(colour) == IF colour = "red" THEN "#FFC7CE" ELSE "#C6EFCE"

AddFormat(slot, colour) == [slot |-> slot, bg_color |-> BgColor(colour)]

\* worksheet.write(row_offset + row_pos, column_offset + column_pos,
\*                 current_data, format)
WriteCallUnshifted(sheet_name, write_offsets, row_pos, column_pos, current_data, format) ==
  [sheet |-> sheet_name, row |-> row_pos, col |-> column_pos,
   value |-> current_data, format |-> format]

WriteCall(sheet_name, write_offsets, row_pos, column_pos, current_data, format) ==
  [sheet |-> sheet_name, row |-> write_offsets[1] + row_pos,
   col |-> write_offsets[2] + column_pos, value |-> current_data,
   format |-> format]

\* current_data != 'nan': a cell of a numeric column is never the str 'nan'.
NotNanString(current_data) == TRUE

\* What the loop over the columns computes once for the column at column_pos.
ColumnLocals(sheet_data, column_pos, margin_options, majority_percentage) ==
  LET current_column == sheet_data.columns[column_pos + 1].values
      largest == SeriesMax(current_column)
      smallest == SeriesMin(current_column)
  IN [bounds |-> _calculate_bounds(current_column, margin_options[1], margin_options[2]),
      largest |-> largest,
      upper_bound_majority_exists |->
        MajorityExists(current_column, largest, majority_percentage),
      smallest |-> smallest,
      lower_bound_majority_exists |->
        MajorityExists(current_column, smallest, majority_percentage)]

\* The body of the loop over the rows: the writes issued for one cell, the
\* upper margin's first.
CellWritesLowerFirst(sheet_name, sheet_data, row_pos, column_pos, locals, formatting_option, colour_options, write_offsets) ==
  LET current_data == sheet_data.columns[column_pos + 1].values[row_pos + 1]
      upper_colour_format == AddFormat("upper", colour_options[1])
      lower_colour_format == AddFormat("lower", colour_options[2])
  IN IF ~NotNanString(current_data) THEN <<>>
     ELSE (IF /\ formatting_option \in LowerModes
              /\ LowerEligible(current_data, locals.smallest, locals.bounds[2],
                               locals.lower_bound_majority_exists)
           THEN <<WriteCall(sheet_name, write_offsets, row_pos, column_pos,
                            current_data, lower_colour_format)>>
           ELSE <<>>)
          \o
          (IF /\ formatting_option \in UpperModes
              /\ UpperEligible(current_data, locals.largest, locals.bounds[1],
                               locals.upper_bound_majority_exists)
           THEN <<WriteCall(sheet_name, write_offsets, row_pos, column_pos,
                            current_data, upper_colour_format)>>
           ELSE <<>>)

CellWrites(sheet_name, sheet_data, row_pos, column_pos, locals, formatting_option, colour_options, write_offsets) ==
  LET current_data == sheet_data.columns[column_pos + 1].values[row_pos + 1]
      upper_colour_format == AddFormat("upper", colour_options[1])
      lower_colour_format == AddFormat("lower", colour_options[2])
  IN IF ~NotNanString(current_data) THEN <<>>
     ELSE (IF /\ formatting_option \in UpperModes
              /\ UpperEligible(current_data, locals.largest, locals.bounds[1],
                               locals.upper_bound_majority_exists)
           THEN <<WriteCall(sheet_name, write_offsets, row_pos, column_pos,
                            current_data, upper_colour_format)>>
           ELSE <<>>)
          \o
          (IF /\ formatting_option \in LowerModes
              /\ LowerEligible(current_data, locals.smallest, locals.bounds[2],
                               locals.lower_bound_majority_exists)
           THEN <<WriteCall(sheet_name, write_offsets, row_pos, column_pos,
                            current_data, lower_colour_format)>>
           ELSE <<>>)

RECURSIVE RowLoop(_, _, _, _, _, _, _, _)
RowLoop(sheet_name, sheet_data, row_pos, column_pos, locals, formatting_option, colour_options, write_offsets) ==
  IF row_pos >= NumRowsOf(sheet_data) THEN <<>>
  ELSE CellWrites(sheet_name, sheet_data, row_pos, column_pos, locals,
                  formatting_option, colour_options, write_offsets)
       \o RowLoop(sheet_name, sheet_data, row_pos + 1, column_pos, locals,
                  formatting_option, colour_options, write_offsets)

RECURSIVE ColumnLoop(_, _, _, _, _, _, _, _)
ColumnLoop(sheet_name, sheet_data, indices, formatting_option, margin_options, colour_options, majority_percentage, write_offsets) ==
  IF indices = <<>> THEN <<>>
  ELSE RowLoop(sheet_name, sheet_data, 0, Head(indices),
               ColumnLocals(sheet_data, Head(indices), margin_options,
                            majority_percentage),
               formatting_option, colour_options, write_offsets)
       \o ColumnLoop(sheet_name, sheet_data, Tail(indices), formatting_option,
                     margin_options, colour_options, majority_percentage,
                     write_offsets)

\* The writes _colourize_columns issues, in order, and the values it computes
\* for each column it formats.
_colourize_columns(sheet_name, sheet_data, columns_to_format, formatting_option, margin_options, colour_options, majority_percentage, write_offsets, multi_index) ==
  LET column_indices_to_format ==
        _get_indices_to_edit(sheet_data, columns_to_format, multi_index)
  IN [column_indices_to_format |-> column_indices_to_format,
      locals |-> [c \in {column_indices_to_format[k] :
                           k \in 1..Len(column_indices_to_format)} |->
                    ColumnLocals(sheet_data, c, margin_options, majority_percentage)],
      writes |-> ColumnLoop(sheet_name, sheet_data, column_indices_to_format,
                            formatting_option, margin_options, colour_options,
                            majority_percentage, write_offsets)]

----------------------------------------------------------------------------
(* The formatting pass applied to a drawn table *)

Mirror(c) == IF c.nan THEN c ELSE Num(MaxVal - c.v)

\* A table with a text column, a numeric column a and a second numeric
\* column b, which holds the values of a mirrored in 0..MaxVal.
TableOf(series) ==
  [columns |->
     << [name |-> "id", numeric |-> FALSE,
         values |-> [r \in 1..Len(series) |-> "row"]],
        [name |-> "a", numeric |-> TRUE, values |-> series],
        [name |-> "b", numeric |-> TRUE,
         values |-> [r \in 1..Len(series) |-> Mirror(series[r])]] >>]

ColumnLists == {<<"a">>, <<"id", "a">>, <<"b", "zz">>, <<"a", "b">>}

FormattingOptions == {"colour_upper", "colour_lower", "colour_both"}

\* (upper margin, lower margin), in tenths of a per cent.
MarginOptions == {<<0, 1000>>, <<250, 250>>, <<500, 0>>, <<1000, 500>>}

MajorityPercentages == {500, 1000}

\* (colour_options, write_offsets)
Presentations ==
  {[colour_options |-> <<"green", "red">>, write_offsets |-> <<0, 0>>],
   [colour_options |-> <<"red", "green">>, write_offsets |-> <<1, 2>>]}

NoPass == [column_indices_to_format |-> <<>>, locals |-> EmptyDict, writes |-> <<>>]

InitFormat ==
  /\ sheets_to_modify = [kind |-> "dict", items |-> <<>>]
  /\ writes = <<>>
  /\ pc = "input"
  /\ \E series \in SeriesInputs, cols \in ColumnLists, opt \in FormattingOptions,
        mo \in MarginOptions, mp \in MajorityPercentages, pr \in Presentations :
       args = [sheet_name |-> "Sheet1", sheet_data |-> TableOf(series),
               columns_to_format |-> cols, formatting_option |-> opt,
               margin_options |-> mo, colour_options |-> pr.colour_options,
               majority_percentage |-> mp, write_offsets |-> pr.write_offsets]
  /\ result = NoPass

\* One call of _colourize_columns: the writes reach the worksheet, and the
\* values computed for each column are kept in result.
ColourizeSheet ==
  /\ pc = "input"
  /\ LET pass == _colourize_columns(args.sheet_name, args.sheet_data,
                   args.columns_to_format, args.formatting_option,
                   args.margin_options, args.colour_options,
                   args.majority_percentage, args.write_offsets, FALSE)
     IN /\ result' = pass
        /\ writes' = writes \o pass.writes
  /\ pc' = "formatted"
  /\ UNCHANGED <<sheets_to_modify, args>>

NextFormat == ColourizeSheet

SpecFormat == InitFormat /\ [][NextFormat]_vars

\* The positions of the columns that are named in the list asked for and are
\* numeric, the cell of a table at (r, c), and the extremes of a column, all
\* stated on the table itself.
Selected == {c \in 0..(Len(args.sheet_data.columns) - 1) : /\ args.sheet_data.columns[c + 1].numeric /\ \E k \in 1..Len(args.columns_to_format) : args.columns_to_format[k] = args.sheet_data.columns[c + 1].name}

RowsOfTable == 0..(Len(args.sheet_data.columns[1].values) - 1)

CellAt(r, c) == args.sheet_data.columns[c + 1].values[r + 1]

PresentRows(c) == {r \in RowsOfTable : ~CellAt(r, c).nan}

IsMaxOf(c, w) == (\E r \in PresentRows(c) : CellAt(r, c).v = w) /\ (\A r \in PresentRows(c) : CellAt(r, c).v <= w)

IsMinOf(c, w) == (\E r \in PresentRows(c) : CellAt(r, c).v = w) /\ (\A r \in PresentRows(c) : CellAt(r, c).v >= w)

CountOf(c, w) == Cardinality({r \in PresentRows(c) : CellAt(r, c).v = w})

\* count / rows >= p / 100, p in tenths
IsMajority(c, w) == 1000 * CountOf(c, w) >= args.majority_percentage * Cardinality(RowsOfTable)

WrittenWith(slot, r, c) == \E k \in 1..Len(writes) : /\ writes[k].format.slot = slot /\ writes[k].row = args.write_offsets[1] + r /\ writes[k].col = args.write_offsets[2] + c

\* C1: a cell of a selected column is written with the upper format iff the
\* mode is colour_upper or colour_both and X <= value <= max, X the column's
\* upper bound; value < max is required exactly when max is a majority value.
C1_UpperWrites ==
  pc = "formatted" =>
    \A c \in Selected : \A r \in RowsOfTable :
      WrittenWith("upper", r, c) <=>
        /\ args.formatting_option \in {"colour_upper", "colour_both"}
        /\ ~CellAt(r, c).nan
        /\ 1000 * CellAt(r, c).v >= result.locals[c].bounds[1].v
        /\ \E w \in 0..MaxVal :
             /\ IsMaxOf(c, w)
             /\ IF IsMajority(c, w) THEN CellAt(r, c).v < w ELSE CellAt(r, c).v <= w

\* The maximum is a majority value and a smaller value at or above the upper
\* bound is written, while the maximum itself is not.
C1_Witness ==
  /\ pc = "formatted"
  /\ args.formatting_option = "colour_both"
  /\ \E c \in Selected : \E r1, r2 \in RowsOfTable : \E w \in 0..MaxVal :
       /\ IsMaxOf(c, w) /\ IsMajority(c, w)
       /\ ~CellAt(r1, c).nan /\ CellAt(r1, c).v = w
       /\ 1000 * w >= result.locals[c].bounds[1].v
       /\ ~WrittenWith("upper", r1, c)
       /\ WrittenWith("upper", r2, c)

\* C2: a cell of a selected column is written with the lower format iff the
\* mode is colour_lower or colour_both and min <= value <= Y, Y the column's
\* lower bound; min < value is required exactly when min is a majority value.
C2_LowerWrites ==
  pc = "formatted" =>
    \A c \in Selected : \A r \in RowsOfTable :
      WrittenWith("lower", r, c) <=>
        /\ args.formatting_option \in {"colour_lower", "colour_both"}
        /\ ~CellAt(r, c).nan
        /\ 1000 * CellAt(r, c).v <= result.locals[c].bounds[2].v
        /\ \E w \in 0..MaxVal :
             /\ IsMinOf(c, w)
             /\ IF IsMajority(c, w) THEN CellAt(r, c).v > w ELSE CellAt(r, c).v >= w

\* The minimum is a majority value and a larger value at or below the lower
\* bound is written, while the minimum itself is not.
C2_Witness ==
  /\ pc = "formatted"
  /\ args.formatting_option = "colour_lower"
  /\ \E c \in Selected : \E r1, r2 \in RowsOfTable : \E w \in 0..MaxVal :
       /\ IsMinOf(c, w) /\ IsMajority(c, w)
       /\ ~CellAt(r1, c).nan /\ CellAt(r1, c).v = w
       /\ ~WrittenWith("lower", r1, c)
       /\ WrittenWith("lower", r2, c)

C9_SelectedColumns ==
  pc = "formatted" =>
    /\ {result.column_indices_to_format[k] : k \in 1..Len(result.column_indices_to_format)} = Selected
    /\ \A k \in 1..Len(writes) : (writes[k].col - args.write_offsets[2]) \in Selected

\* The list names the text column besides a numeric one, and only the
\* numeric one is written.
C9_Witness ==
  /\ pc = "formatted"
  /\ args.columns_to_format = <<"id", "a">>
  /\ result.column_indices_to_format = <<1>>
  /\ writes # <<>>

\* C10: every write is for a table cell (r, c) of a selected column, c the
\* position in the whole table: it targets (row_offset + r, column_offset + c)
\* of the sheet and carries the table's value of that cell.
C10_WriteTargets ==
  pc = "formatted" =>
    \A k \in 1..Len(writes) :
      LET r == writes[k].row - args.write_offsets[1]
          c == writes[k].col - args.write_offsets[2]
      IN /\ writes[k].sheet = args.sheet_name
         /\ c \in Selected
         /\ r \in RowsOfTable
         /\ writes[k].value = CellAt(r, c)

\* With offsets (1, 2), the last row of column a, at position 1 of the table,
\* is written at column 3.
C10_Witness ==
  /\ pc = "formatted"
  /\ args.write_offsets = <<1, 2>>
  /\ args.columns_to_format = <<"a">>
  /\ \E k \in 1..Len(writes) :
       /\ writes[k].col = 3
       /\ writes[k].row = Len(args.sheet_data.columns[1].values)
       /\ writes[k].value.v > 0

----------------------------------------------------------------------------
(* The public operations: set_sheets_to_modify, colourize_columns,
   colourize_all and close *)

\* The keys the two colourize methods read from the parsed dict, in order.
RequiredOptions == <<"formatting_option", "margin_upper", "margin_lower", "colour_upper", "colour_lower", "majority_percentage", "row_offset", "column_offset">>

\* parsed_instructions[k] for each required k: KeyError on the first absent.
Lookups(params) ==
  IF \E k \in 1..Len(RequiredOptions) : RequiredOptions[k] \notin DOMAIN params
  THEN "KeyError" ELSE "none"

\* The names colourize_all passes for one sheet: every column name that is
\* not in exclude_columns.
ColumnsNotExcluded(sheet_data, exclude_columns) ==
  LET Kept(name) == ~InList(name, exclude_columns)
  IN SelectSeq(columns_tolist(sheet_data), Kept)

\* for sheet_name, sheet_data in self.sheets_to_modify.items(): the writes of
\* the passes over items[i..], in order.  columns is the list asked for; for
\* colourize_all (all = TRUE) it is the list to exclude.
RECURSIVE SheetLoop(_, _, _, _, _)
SheetLoop(items, i, columns, all, params) ==
  IF i > Len(items) THEN <<>>
  ELSE _colourize_columns(items[i].name, items[i].data,
         IF all THEN ColumnsNotExcluded(items[i].data, columns) ELSE columns,
         params["formatting_option"],
         <<params["margin_upper"], params["margin_lower"]>>,
         <<params["colour_upper"], params["colour_lower"]>>,
         params["majority_percentage"],
         <<params["row_offset"], params["column_offset"]>>, FALSE).writes
       \o SheetLoop(items, i + 1, columns, all, params)

\* A call of colourize_columns (all = FALSE) or colourize_all (all = TRUE):
\* the exception it raises, the sheets whose pass ran, and its writes.
Colourize(sheets, columns, instructions, all) ==
  LET parsed == _parse_instructions(instructions) IN
    IF parsed.raised # "none"
    THEN [raised |-> parsed.raised, passes |-> <<>>, writes |-> <<>>]
    ELSE IF Lookups(parsed.params) # "none"
    THEN [raised |-> Lookups(parsed.params), passes |-> <<>>, writes |-> <<>>]
    ELSE IF sheets.kind # "dict"
    THEN [raised |-> "AttributeError", passes |-> <<>>, writes |-> <<>>]
    ELSE [raised |-> "none",
          passes |-> [i \in 1..Len(sheets.items) |-> sheets.items[i].name],
          writes |-> SheetLoop(sheets.items, 1, columns, all, parsed.params)]

\* Most calls of a colourize method on one ExcelModifier.
MaxCalls == 1

SheetTables ==
  [Sheet1 |-> TableOf(<<Num(0), Num(1), Num(2)>>),
   Sheet2 |-> TableOf(<<Num(2), Num(2), NaN>>)]

\* What a caller passes to set_sheets_to_modify: a dict of sheet name to
\* DataFrame (what the colourize methods read) or the list of names the
\* signature asks for.
SheetsArguments ==
  {[kind |-> "dict", items |-> <<>>],
   [kind |-> "dict", items |-> <<[name |-> "Sheet1", data |-> SheetTables.Sheet1]>>],
   [kind |-> "dict", items |-> <<[name |-> "Sheet2", data |-> SheetTables.Sheet2]>>],
   [kind |-> "dict", items |-> <<[name |-> "Sheet1", data |-> SheetTables.Sheet1],
                                 [name |-> "Sheet2", data |-> SheetTables.Sheet2]>>],
   [kind |-> "list", items |-> <<"Sheet1">>],
   [kind |-> "list", items |-> <<"Sheet1", "Sheet2">>]}

ApiGivens ==
  {ExampleGiven,
   [ExampleGiven EXCEPT !.margin_upper = 500, !.margin_lower = 500,
                        !.colour_upper = "red", !.majority_percentage = 500,
                        !.column_offset = 3]}

\* The tokens of a well-formed string with the pair of key k left out, or
\* with the value of key k replaced by the token v.
WithoutPair(given, k) ==
  JoinTokens(FlattenPairs(PairsOf(given, FALSE), SelectSeq(CanonicalOrder, LAMBDA j : j # k)))

WithValue(given, k, v) ==
  JoinTokens(FlattenPairs([PairsOf(given, FALSE) EXCEPT ![k] = <<@[1], v>>], CanonicalOrder))

ApiInstructions ==
  {InstructionString(g, FALSE, CanonicalOrder) : g \in ApiGivens}
  \cup {WithoutPair(g, k) : g \in ApiGivens, k \in 1..NumPairs}
  \cup {WithValue(g, k, <<"x">>) : g \in ApiGivens, k \in 1..NumPairs}

ApiColumnLists == {<<"a">>, <<"id", "b">>, <<>>}

NoCall == [raised |-> "none", passes |-> <<>>, writes |-> <<>>]

Init ==
  /\ sheets_to_modify = [kind |-> "dict", items |-> <<>>]
  /\ writes = <<>>
  /\ pc = "ready"
  /\ args = [op |-> "__init__", calls |-> 0, writes_before |-> 0]
  /\ result = NoCall

set_sheets_to_modify ==
  /\ pc = "ready"
  /\ \E sheet_names \in SheetsArguments : sheets_to_modify' = sheet_names
  /\ UNCHANGED <<writes, pc, args, result>>

colourize_columns ==
  /\ pc = "ready"
  /\ args.calls < MaxCalls
  /\ \E columns \in ApiColumnLists, instructions \in ApiInstructions :
       /\ args' = [op |-> "colourize_columns", calls |-> args.calls + 1,
                   writes_before |-> Len(writes),
                   columns |-> columns, instructions |-> instructions]
       /\ result' = Colourize(sheets_to_modify, columns, instructions, FALSE)
       /\ writes' = writes \o result'.writes
  /\ UNCHANGED <<sheets_to_modify, pc>>

colourize_all ==
  /\ pc = "ready"
  /\ args.calls < MaxCalls
  /\ \E exclude_columns \in ApiColumnLists, instructions \in ApiInstructions :
       /\ args' = [op |-> "colourize_all", calls |-> args.calls + 1,
                   writes_before |-> Len(writes),
                   columns |-> exclude_columns, instructions |-> instructions]
       /\ result' = Colourize(sheets_to_modify, exclude_columns, instructions, TRUE)
       /\ writes' = writes \o result'.writes
  /\ UNCHANGED <<sheets_to_modify, pc>>

close ==
  /\ pc = "ready"
  /\ pc' = "closed"
  /\ UNCHANGED <<sheets_to_modify, writes, args, result>>

Next == set_sheets_to_modify \/ colourize_columns \/ colourize_all \/ close

Spec == Init /\ [][Next]_vars

\* The ways the split instruction string toks is malformed.
IsCall == args.op \in {"colourize_columns", "colourize_all"}

FollowedBy(toks, i, allowed) == IF i = Len(toks) THEN FALSE ELSE toks[i + 1] \in allowed

IsNumeral(tok) ==
  /\ \A k \in 1..Len(tok) : tok[k] = "." \/ \E d \in 1..Len(Digits) : Digits[d] = tok[k]
  /\ \E k \in 1..Len(tok) : tok[k] # "."
  /\ Cardinality({k \in 1..Len(tok) : tok[k] = "."}) <= 1

KeyMissing(toks) == \E j \in 1..NumPairs : \A i \in 1..Len(toks) : toks[i] # <<POSSIBLE_INSTRUCTIONS[j]>>

NonNumericValue(toks) ==
  \E i \in 1..Len(toks) :
    /\ toks[i] \in {<<"M">>, <<"m">>, <<"p">>, <<"o">>, <<"O">>}
    /\ IF i = Len(toks) THEN TRUE ELSE ~IsNumeral(toks[i + 1])

ColourOutOfSet(toks) ==
  \E i \in 1..Len(toks) : toks[i] \in {<<"C">>, <<"c">>} /\ ~FollowedBy(toks, i, {<<"r">>, <<"g">>})

ModeOutOfSet(toks) ==
  \E i \in 1..Len(toks) : toks[i] = <<"s">> /\ ~FollowedBy(toks, i, {<<"u">>, <<"l">>, <<"b">>})

ModeNeverInSet(toks) ==
  \A i \in 1..Len(toks) : toks[i] = <<"s">> => ~FollowedBy(toks, i, {<<"u">>, <<"l">>, <<"b">>})

RaisedWithoutWrite == result.raised # "none" /\ Len(writes) = args.writes_before

\* C8 as stated: a call with a malformed instruction string (a key missing, a
\* numeric key with a non-numeric value, or C, c or s with a token outside
\* its set) raises an error and issues no write.
C8_MalformedRaises ==
  IsCall =>
    LET toks == Split(args.instructions) IN
      (KeyMissing(toks) \/ NonNumericValue(toks) \/ ColourOutOfSet(toks) \/ ModeOutOfSet(toks))
        => RaisedWithoutWrite

\* C8, amended: a call with an instruction string in which a key is missing,
\* a numeric key has a non-numeric value, or s has no token of u, l, b raises
\* an error and issues no write.  (A token outside r, g after C or c is read
\* as green.)
C8_MalformedRaisesAmended ==
  IsCall =>
    LET toks == Split(args.instructions) IN
      (KeyMissing(toks) \/ NonNumericValue(toks) \/ ModeNeverInSet(toks))
        => RaisedWithoutWrite

\* Sheets are set, every key is present and s is followed by x: the call
\* ends in the KeyError of the lookup and writes nothing.
C8_Witness ==
  /\ IsCall
  /\ sheets_to_modify.kind = "dict"
  /\ sheets_to_modify.items # <<>>
  /\ result.raised = "KeyError"
  /\ writes = <<>>
  /\ LET toks == Split(args.instructions) IN
       ~KeyMissing(toks) /\ ~NonNumericValue(toks) /\ ModeNeverInSet(toks)

----------------------------------------------------------------------------
(* The writes a cell receives in one pass, and what the sink keeps *)

\* The indices, in the log, of the writes to the sheet cell of table cell (r, c).
WritesTo(r, c) == {k \in 1..Len(writes) : writes[k].row = args.write_offsets[1] + r /\ writes[k].col = args.write_offsets[2] + c}

\* worksheet.write replaces what the cell held: the sink keeps the format of
\* the last write to the cell.
SinkFormat(r, c) == writes[CHOOSE k \in WritesTo(r, c) : \A j \in WritesTo(r, c) : j <= k].format

\* The upper and the lower check of C1 and C2, stated on the table.
PassesUpperCheck(r, c) ==
  /\ ~CellAt(r, c).nan
  /\ 1000 * CellAt(r, c).v >= result.locals[c].bounds[1].v
  /\ \E w \in 0..MaxVal : IsMaxOf(c, w) /\ (IF IsMajority(c, w) THEN CellAt(r, c).v < w ELSE CellAt(r, c).v <= w)

PassesLowerCheck(r, c) ==
  /\ ~CellAt(r, c).nan
  /\ 1000 * CellAt(r, c).v <= result.locals[c].bounds[2].v
  /\ \E w \in 0..MaxVal : IsMinOf(c, w) /\ (IF IsMajority(c, w) THEN CellAt(r, c).v > w ELSE CellAt(r, c).v >= w)

\* C11: in one pass a cell receives at most one upper and at most one lower
\* write; it receives two writes exactly when the mode is colour_both and it
\* passes both checks, and then the upper write comes first, so that the
\* sink keeps the lower format and colour.
C11_WritesPerCell ==
  pc = "formatted" =>
    \A c \in Selected : \A r \in RowsOfTable :
      LET uppers == {k \in WritesTo(r, c) : writes[k].format.slot = "upper"}
          lowers == {k \in WritesTo(r, c) : writes[k].format.slot = "lower"}
      IN /\ Cardinality(uppers) <= 1
         /\ Cardinality(lowers) <= 1
         /\ WritesTo(r, c) = uppers \cup lowers
         /\ Cardinality(WritesTo(r, c)) = 2 <=>
              /\ args.formatting_option = "colour_both"
              /\ PassesUpperCheck(r, c)
              /\ PassesLowerCheck(r, c)
         /\ Cardinality(WritesTo(r, c)) = 2 =>
              /\ \A u \in uppers : \A l \in lowers : u < l
              /\ SinkFormat(r, c).slot = "lower"
              /\ SinkFormat(r, c).bg_color = (IF args.colour_options[2] = "red" THEN "#FFC7CE" ELSE "#C6EFCE")

\* Under colour_both one cell of a column is written twice and ends red, the
\* lower colour, while another cell of the column is written once.
C11_Witness ==
  /\ pc = "formatted"
  /\ args.formatting_option = "colour_both"
  /\ args.colour_options = <<"green", "red">>
  /\ \E c \in Selected : \E r1, r2 \in RowsOfTable :
       /\ Cardinality(WritesTo(r1, c)) = 2
       /\ SinkFormat(r1, c).bg_color = "#FFC7CE"
       /\ Cardinality(WritesTo(r2, c)) = 1

----------------------------------------------------------------------------
(* Missing values *)

\* C12: in a selected column that contains missing values, no write is
\* issued for a cell whose value is missing, whatever the mode, the margins
\* and the majority percentage: every comparison against NaN at lines
\* 397-415 is false (the test against the string 'nan' at line 394 never is).
C12_MissingNeverWritten ==
  pc = "formatted" =>
    /\ \A c \in Selected : \A r \in RowsOfTable : CellAt(r, c).nan => WritesTo(r, c) = {}
    /\ \A k \in 1..Len(writes) : ~writes[k].value.nan

\* A selected column holds a missing value and a present one; the present
\* one is written, under the widest margins.
C12_Witness ==
  /\ pc = "formatted"
  /\ args.margin_options = <<1000, 500>>
  /\ \E c \in Selected : \E r1, r2 \in RowsOfTable :
       /\ CellAt(r1, c).nan
       /\ WritesTo(r1, c) = {}
       /\ ~CellAt(r2, c).nan
       /\ WritesTo(r2, c) # {}

----------------------------------------------------------------------------
(* A list of sheet names *)

\* The well-formed instruction strings among the inputs of the calls.
ValidInstructions == {InstructionString(g, FALSE, CanonicalOrder) : g \in ApiGivens}

\* C13: once set_sheets_to_modify has stored a list of sheet names, as its
\* signature (sheet_names: list[str]) describes, a call of colourize_columns
\* or colourize_all with a well-formed instruction string raises nothing and
\* runs the formatting pass once for each sheet named in the list.
C13_ListOfSheetsRuns ==
  [][(/\ sheets_to_modify.kind = "list"
      /\ args'.calls = args.calls + 1
      /\ args'.instructions \in ValidInstructions)
     => (/\ result'.raised = "none"
         /\ result'.passes = sheets_to_modify.items)]_vars

====
